---- MODULE Spec2Model ----
(***************************************************************************)
(* Quota-gated delivery engine of the Angle video bot.                     *)
(*                                                                         *)
(* The model covers the index-based deployment: the web service server.py  *)
(* (webhook dispatcher, /ad/* endpoints, admin endpoints) and the polling  *)
(* bot bot.py, which share one MongoDB database (collections users,        *)
(* videos, ad_sessions) and the same document schema; bot.py calls the     *)
(* /ad/create and /ad/status endpoints of server.py over HTTP.             *)
(*                                                                         *)
(* Every `await` of a handler is a point where another request may run, so *)
(* a handler is a sequence of steps; the position of each in-flight        *)
(* request is req[p].pc.  A read of a catalog document followed by the     *)
(* send of that document is one step: catalog documents are never updated. *)
(* A field that a document lacks reads as the default of the code's        *)
(* .get(field, 0), so a missing counter is the value 0.                    *)
(***************************************************************************)
EXTENDS Integers, Sequences, FiniteSets, TLC

\* ---------------------------------------------------------------- bounds
NumUsers    == 2   \* user ids 1..NumUsers
NumProcs    == 2   \* requests that may be in flight at once
MaxVideos   == 2   \* catalog documents that may be inserted
MaxSessions == 2   \* ad sessions that may be created
MaxCycle    == 2   \* quota resets per user
MaxTime     == 1   \* ticks of the clock
FREE_BATCH  == 2   \* server.py:33, bot.py:24: int(os.getenv("FREE_BATCH", "5"))
FREE_LIMIT  == 2   \* app/config.py:29: int(os.getenv("FREE_LIMIT", "5"))
MaxImports  == 3   \* catalog documents that may be imported in the cursor runs
MaxCursor   == 3   \* "next" is pressed only while the cursor is below this

USER_IDS  == 1..NumUsers
Procs     == 1..NumProcs
ADMIN_IDS == {1}          \* server.py:31, bot.py:21 (from the environment)
FileIds   == {"f1"}
Days      == {0, 1}       \* the <days> argument of /grant_premium
Apps      == {"server", "bot"}
Viewers   == {1}          \* the users who press buttons in the delivery runs
Pressers  == {1}          \* the processes that handle the presses in the ad runs
Captions  == {"", "new"}  \* msg.caption or "" of a channel post
Services  == {"app.ads", "ads"}   \* app/ads/service.py and ads/service.py
MessageIds == 1..MaxVideos        \* message_id of the posts of the channel
PostFiles  == {"f1", "f2"}        \* file_id of the media the posts carry
BIN_CHANNEL == "bin"              \* chat.id of the channel the bot is admin of
SeenApps   == {"app.telegram", "telegram"}   \* the two video_service.py

None == <<>>              \* Python None; Some(x) is a present value
Some(x) == <<x>>

\* no request has been answered yet
NoResponse == [op |-> "none", token |-> 0, code |-> 0, body |-> "none"]

VARIABLES
    users,      \* users_col: user_id -> document
    videos,     \* videos_col in created_at order: sequence of documents
    ad_col,     \* ad_sessions: sequence of documents, the token is the position
    clock,      \* now()
    deploy,     \* the program that receives the bot's updates: "server" or "bot"
    req,        \* in-flight callback queries: process -> handler frame
    granted,    \* history: sends to a user while not premium since the last reset
    resetLog,   \* history: per token, the quota resets made through it
    premSent,   \* history: per user, catalog positions sent while premium
    premRepeat, \* history: per user, a premium send repeated a position
    sentLog,    \* history: per user, the cursors of the deliveries since the last
                \* refill (cursor deployment), the file ids delivered (seen-set services)
    http        \* the last response of a web endpoint that completes ad sessions

vars == <<users, videos, ad_col, clock, deploy, req, granted, resetLog, premSent,
          premRepeat, sentLog, http>>

\* ------------------------------------------------------------- documents
\* server.py:100-108, bot.py:64-72; bare: the document has no video_index,
\* free_used_in_cycle and cycle fields (they read as 0)
NewUserDoc == [premium_until |-> None, video_index |-> 0,
               free_used_in_cycle |-> 0, cycle |-> 0, bare |-> FALSE]

\* bot.py:141: the document an upsert creates has only user_id and premium_until
BareDoc == [NewUserDoc EXCEPT !.bare = TRUE]

\* bot.py:141: update_one(..., {"$set": {"premium_until": until}}, upsert=True)
UpsertPremium(doc, until) == [doc EXCEPT !.premium_until = Some(until)]

\* server.py:88-96: {"$set": set_fields} for the counters the document read at
\* line 86 did not have
set_fields(doc) ==
    [doc EXCEPT !.video_index = 0, !.free_used_in_cycle = 0, !.cycle = 0,
                !.bare = FALSE]

\* server.py:171-179
NewAdSession(user_id) == [user_id |-> user_id, status |-> "pending",
                          clicked_at |-> None, completed_at |-> None]

\* the frame of a handler: the callback query, the values the handler holds in
\* its local variables, and what it has told the user; cat is the size of the
\* catalog at the lookup when the index was at or past its end; post is the
\* channel post a channel_post update carries, secret the X-Telegram-Secret
\* header of a webhook POST
Idle == [pc |-> "idle", app |-> "none", data |-> "none", user |-> 0, token |-> 0,
         idx |-> 0, used |-> 0, premium |-> FALSE, cat |-> None, blocked |-> FALSE,
         outcome |-> "none", made |-> 0, link |-> FALSE, adres |-> "none",
         post |-> None, secret |-> None]

\* ---------------------------------------------------------------- helpers
\* server.py:116-120, bot.py:80-84: a premium_until string that
\* datetime.fromisoformat rejects
Unparseable == -1

\* a test that counts the instant of expiry as premium
is_premium_inclusive(user_doc, now) ==
    IF user_doc.premium_until = None THEN FALSE
    ELSE IF user_doc.premium_until[1] = Unparseable THEN FALSE
    ELSE user_doc.premium_until[1] >= now
\* server.py:112-121, bot.py:76-85
is_premium(user_doc, now) ==
    IF user_doc.premium_until = None THEN FALSE
    ELSE IF user_doc.premium_until[1] = Unparseable THEN FALSE
    ELSE user_doc.premium_until[1] > now

\* server.py:370, bot.py:196: the quota test
quota_left(used) == used < FREE_BATCH

\* a lookup that starts again from the first document past the end
video_at_wrap(idx, n) == IF n = 0 THEN None ELSE Some((idx % n) + 1)
\* server.py:268-270, bot.py:240-243: find().sort("created_at",1).skip(idx).limit(1)
\* on a catalog of n documents: the position found, None when there is none
video_at(idx, n) == IF idx + 1 <= n THEN Some(idx + 1) ELSE None

Init ==
    /\ users = <<>>
    /\ videos = <<>>
    /\ ad_col = <<>>
    /\ clock = 0
    /\ deploy \in Apps
    /\ req = [p \in Procs |-> Idle]
    /\ granted = [u \in USER_IDS |-> 0]
    /\ resetLog = <<>>
    /\ premSent = [u \in USER_IDS |-> {}]
    /\ premRepeat = [u \in USER_IDS |-> FALSE]
    /\ sentLog = [u \in USER_IDS |-> <<>>]
    /\ http = NoResponse

\* every user has used up the free batch; the catalog holds a batch more
InitAds ==
    /\ users = [u \in USER_IDS |-> [NewUserDoc EXCEPT !.video_index = FREE_BATCH,
                                                      !.free_used_in_cycle = FREE_BATCH]]
    /\ videos = [i \in 1..(2 * FREE_BATCH) |-> [file_id |-> "f1"]]
    /\ ad_col = <<>>
    /\ clock = 0
    /\ deploy = "server"
    /\ req = [p \in Procs |-> Idle]
    /\ granted = [u \in USER_IDS |-> FREE_BATCH]
    /\ resetLog = <<>>
    /\ premSent = [u \in USER_IDS |-> {}]
    /\ premRepeat = [u \in USER_IDS |-> FALSE]
    /\ sentLog = [u \in USER_IDS |-> <<>>]
    /\ http = NoResponse

hist == <<granted, resetLog, premSent, premRepeat, sentLog, http>>

\* ------------------------------------------------- environment and admin
\* now() advances
Tick ==
    /\ clock < MaxTime
    /\ clock' = clock + 1
    /\ UNCHANGED <<users, videos, ad_col, deploy, req, hist>>

\* server.py:229-235
admin_insert_video ==
    \E admin_id \in USER_IDS, file_id \in FileIds :
        /\ Len(videos) < MaxVideos
        /\ admin_id \in ADMIN_IDS
        /\ videos' = Append(videos, [file_id |-> file_id])
        /\ UNCHANGED <<users, ad_col, clock, deploy, req, hist>>

\* bot.py:129-142
grant_premium(targets) ==
    \E caller \in USER_IDS, target \in targets, days \in Days :
        /\ caller \in ADMIN_IDS
        /\ clock + days <= MaxTime + 1
        /\ users' = IF target \in DOMAIN users
                    THEN [users EXCEPT ![target] = UpsertPremium(@, clock + days)]
                    ELSE users @@ (target :> UpsertPremium(BareDoc, clock + days))
        /\ UNCHANGED <<videos, ad_col, clock, deploy, req, hist>>

\* ---------------------------------------------------------- ad endpoints
\* server.py:170-180: insert_one of a pending session under a fresh uuid4
\* token (the next position of ad_col)
ad_create_insert(user_id) ==
    /\ ad_col' = Append(ad_col, NewAdSession(user_id))
    /\ resetLog' = Append(resetLog, [n |-> 0, who |-> {}])

\* server.py:168-187: POST /ad/create
ad_create ==
    \E user_id \in USER_IDS :
        /\ Len(ad_col) < MaxSessions
        /\ ad_create_insert(user_id)
        /\ UNCHANGED <<users, videos, clock, deploy, req, granted, premSent, premRepeat, sentLog, http>>

\* a click that also marks the session completed
click_session_completing(sess, now) ==
    [sess EXCEPT !.clicked_at = Some(now), !.status = "completed"]
\* server.py:193: update_one({"token": token}, {"$set": {"clicked_at": now()}})
click_session(sess, now) == [sess EXCEPT !.clicked_at = Some(now)]

\* server.py:189-195: GET /ad/redirect
ad_redirect ==
    \E token \in 1..MaxSessions :
        /\ token <= Len(ad_col)
        /\ ad_col' = [ad_col EXCEPT ![token] = click_session(@, clock)]
        /\ UNCHANGED <<users, videos, clock, deploy, req, hist>>

\* an update that stores whatever status the callback carries
complete_session_any(sess, status, now) ==
    [sess EXCEPT !.status = status, !.completed_at = Some(now)]
\* server.py:203-204: update_one({"token": token, "status": "pending"}, {"$set": ...})
complete_session(sess, status, now) ==
    IF status = "completed" /\ sess.status = "pending"
    THEN [sess EXCEPT !.status = "completed", !.completed_at = Some(now)]
    ELSE sess

\* server.py:197-206: POST /ad/callback
ad_callback ==
    \E token \in 1..MaxSessions, status \in {"completed", "pending"} :
        /\ token <= Len(ad_col)
        /\ ad_col' = [ad_col EXCEPT ![token] = complete_session(@, status, clock)]
        /\ UNCHANGED <<users, videos, clock, deploy, req, hist>>

\* server.py:208-213: the status reported for a token, None for a 404
ad_status(token) ==
    IF token \in 1..Len(ad_col) THEN Some(ad_col[token].status) ELSE None

\* ------------------------------------------------------ callback handlers
Finish(f, outcome) == [f EXCEPT !.pc = "done", !.outcome = outcome]

\* server.py:353-370 and 410, bot.py:192-216: the branch taken once the user
\* document is read and premium is computed; server.py:297-298: a forwarded
\* message with media goes to the import
Dispatch(f) ==
    IF f.data = "forward" THEN [f EXCEPT !.pc = "import"]
    ELSE IF f.data = "ad_check" THEN [f EXCEPT !.pc = "status"]
    ELSE IF f.premium THEN [f EXCEPT !.pc = "send"]
    ELSE IF quota_left(f.used) THEN [f EXCEPT !.pc = "send"]
    ELSE IF f.app = "bot" THEN [f EXCEPT !.pc = "adcreate", !.blocked = TRUE]
    ELSE Finish([f EXCEPT !.blocked = TRUE], "none")

\* server.py:335-336, bot.py:183-184: udoc and premium once ensure has returned
Ensured(f, doc, now) ==
    Dispatch([f EXCEPT !.idx = doc.video_index, !.used = doc.free_used_in_cycle,
                       !.premium = is_premium(doc, now)])

\* bot.py:298: the Application is built without concurrent_updates, so the
\* polling bot handles one update at a time; the webhook of server.py handles
\* each POST as its own task.
may_begin(p) ==
    /\ req[p].pc = "idle"
    /\ deploy = "bot" => \A q \in Procs : req[q].pc = "idle"

\* server.py:86-87 and 100, bot.py:59-60 and 64: find_one of the user document
\* and the branch on what it returned
ensure_read(f) ==
    IF f.user \notin DOMAIN users THEN [f EXCEPT !.pc = "insert"]
    ELSE IF deploy = "server" /\ users[f.user].bare THEN [f EXCEPT !.pc = "setfields"]
    ELSE Ensured(f, users[f.user], clock)

\* server.py:319-336 with ensure_user_doc (85-99), bot.py:178-184 with
\* ensure_user (58-63): a callback query arrives and the user document is read
cb_begin(p, senders, buttons) ==
    \E user \in senders, data \in buttons, token \in 0..MaxSessions :
        /\ may_begin(p)
        /\ (data = "ad_check") = (token > 0)
        /\ LET f == [Idle EXCEPT !.app = deploy, !.user = user, !.data = data,
                                 !.token = token]
           IN req' = [req EXCEPT ![p] = ensure_read(f)]
        /\ UNCHANGED <<users, videos, ad_col, clock, deploy, hist>>

\* server.py:87-99: the update that adds the counters missing from the
\* document read at line 86, and the find_one whose result is returned
ensure_set_fields(p) ==
    /\ req[p].pc = "setfields"
    /\ users' = [users EXCEPT ![req[p].user] = set_fields(@)]
    /\ req' = [req EXCEPT ![p].pc = "refind"]
    /\ UNCHANGED <<videos, ad_col, clock, deploy, hist>>

\* server.py:99: return await users_col.find_one({"user_id": user_id})
ensure_refind(p) ==
    /\ req[p].pc = "refind"
    /\ req' = [req EXCEPT ![p] = Ensured(@, users[@.user], clock)]
    /\ UNCHANGED <<users, videos, ad_col, clock, deploy, hist>>

\* an ensure that writes the initial document whether or not the user exists
ensure_insert_overwriting(p) ==
    /\ req[p].pc = "insert"
    /\ users' = IF req[p].user \in DOMAIN users
                THEN [users EXCEPT ![req[p].user] = NewUserDoc]
                ELSE users @@ (req[p].user :> NewUserDoc)
    /\ req' = [req EXCEPT ![p] = Ensured(@, NewUserDoc, clock)]
    /\ UNCHANGED <<videos, ad_col, clock, deploy, hist>>
\* server.py:100-110, bot.py:64-74: insert_one of the new document; the unique
\* index on user_id (server.py:62) rejects a second document for the user
ensure_insert(p) ==
    /\ req[p].pc = "insert"
    /\ IF req[p].user \in DOMAIN users
       THEN /\ req' = [req EXCEPT ![p] = Finish(@, "error")]
            /\ UNCHANGED users
       ELSE /\ users' = users @@ (req[p].user :> NewUserDoc)
            /\ req' = [req EXCEPT ![p] = Ensured(@, NewUserDoc, clock)]
    /\ UNCHANGED <<videos, ad_col, clock, deploy, hist>>

\* a handler that counts a lookup that found nothing as a delivery
after_send_charging(f, found, ok) ==
    IF ~ found \/ ok THEN [f EXCEPT !.pc = "inc"]
    ELSE Finish(f, "DeliveryFailed")
\* a handler that counts a failed send as a delivery
after_send_committing(f, found, ok) ==
    IF ~ found THEN Finish(f, "CatalogExhausted")
    ELSE [f EXCEPT !.pc = "inc"]
\* a handler that lets the exception of a failed send escape
after_send_raising(f, found, ok) ==
    IF ~ found THEN Finish(f, "CatalogExhausted")
    ELSE IF ok THEN [f EXCEPT !.pc = "inc"]
    ELSE Finish(f, "error")
\* a handler that answers a missing item of a non-premium user with the ad wall
after_send_conflated(f, found, ok) ==
    IF found /\ ok THEN [f EXCEPT !.pc = "inc"]
    ELSE IF found \/ f.premium THEN Finish(f, "DeliveryFailed")
    ELSE [f EXCEPT !.pc = "adcreate", !.blocked = TRUE]
\* server.py:269-277 with 356/362 and 372/403, bot.py:241-250: what the handler
\* does with the result of the lookup (found) and of bot.send_video (ok)
after_send(f, found, ok) ==
    IF ~ found THEN Finish(f, "CatalogExhausted")
    ELSE IF ok THEN [f EXCEPT !.pc = "inc"]
    ELSE Finish(f, "DeliveryFailed")

\* server.py:267-277 (called at 355 and 371), bot.py:239-250
send_video_to_user_by_index(p) ==
    /\ req[p].pc = "send"
    /\ \E ok \in BOOLEAN :
        LET f == [req[p] EXCEPT !.cat = IF req[p].idx >= Len(videos)
                                        THEN Some(Len(videos)) ELSE None]
            u == f.user
            found == video_at(f.idx, Len(videos)) # None
            sent == found /\ ok
        IN /\ found \/ ok
           /\ req' = [req EXCEPT ![p] = after_send(f, found, ok)]
           /\ granted' = IF sent /\ ~ f.premium
                         THEN [granted EXCEPT ![u] = @ + 1] ELSE granted
           /\ premSent' = IF sent /\ f.premium
                          THEN [premSent EXCEPT ![u] = @ \cup {f.idx + 1}]
                          ELSE premSent
           /\ premRepeat' = IF sent /\ f.premium /\ f.idx + 1 \in premSent[u]
                            THEN [premRepeat EXCEPT ![u] = TRUE] ELSE premRepeat
    /\ UNCHANGED <<users, videos, ad_col, clock, deploy, resetLog, sentLog, http>>

\* an update that counts every send against the free batch
inc_after_send_counting(doc, premium) ==
    [doc EXCEPT !.video_index = @ + 1, !.free_used_in_cycle = @ + 1]
\* server.py:357 and 373, bot.py:251-254: the $inc after a successful send
inc_after_send(doc, premium) ==
    [doc EXCEPT !.video_index = @ + 1,
                !.free_used_in_cycle = IF premium THEN @ ELSE @ + 1]

\* server.py:357-367 and 373, bot.py:251-254
cb_inc(p) ==
    /\ req[p].pc = "inc"
    /\ users' = [users EXCEPT ![req[p].user] = inc_after_send(@, req[p].premium)]
    /\ req' = [req EXCEPT ![p] =
                 IF @.app = "server" /\ @.premium THEN Finish(@, "Delivered")
                 ELSE [@ EXCEPT !.pc = "reread"]]
    /\ UNCHANGED <<videos, ad_col, clock, deploy, hist>>

\* server.py:375/382, bot.py:256-262: after the re-read of the document, is the
\* ad prompt due?
ad_prompt_due(app, doc, now) ==
    IF app = "bot" /\ is_premium(doc, now) THEN FALSE
    ELSE ~ quota_left(doc.free_used_in_cycle)

\* server.py:374-382, bot.py:255-262
cb_reread(p) ==
    /\ req[p].pc = "reread"
    /\ req' = [req EXCEPT ![p] =
                 IF ad_prompt_due(@.app, users[@.user], clock)
                 THEN [@ EXCEPT !.pc = "adcreate"]
                 ELSE Finish(@, "Delivered")]
    /\ UNCHANGED <<users, videos, ad_col, clock, deploy, hist>>

\* server.py:389-402, bot.py:205-214 and 267-275: what the user is told after
\* the POST to /ad/create; res is "created" when the 201 response arrived
after_adcreate(f, res, token) ==
    Finish([f EXCEPT !.adres = res,
                     !.made = IF res = "down" THEN 0 ELSE token,
                     !.link = (res = "created")],
           IF ~ f.blocked THEN "Delivered"
           ELSE IF res = "created" THEN "AdRequired"
           ELSE "ProviderUnavailable")

\* server.py:384-402, bot.py:201-215 and 264-275: POST /ad/create over HTTP.
\* "created": 201 received; "lost": the session was inserted and the response
\* was not received (timeout=10); "down": the request did not reach the service.
\* The frame keeps the fate of its HTTP call in adres.
cb_adcreate(p) ==
    /\ req[p].pc = "adcreate"
    /\ \E res \in {"created", "lost", "down"} :
        /\ IF res = "down"
           THEN UNCHANGED <<ad_col, resetLog>>
           ELSE /\ Len(ad_col) < MaxSessions
                /\ ad_create_insert(req[p].user)
        /\ req' = [req EXCEPT ![p] = after_adcreate(@, res, Len(ad_col) + 1)]
    /\ UNCHANGED <<users, videos, clock, deploy, granted, premSent, premRepeat, sentLog, http>>

\* a branch that unlocks on any session that exists
after_status_trusting(f, st) ==
    IF st = None THEN Finish(f, "CouldNotVerify")
    ELSE [f EXCEPT !.pc = "reset"]
\* server.py:416-430, bot.py:223-232: the branch on the response of
\* GET /ad/status/{token}; st is None when no 200 response arrived
after_status(f, st) ==
    IF st = None THEN Finish(f, "CouldNotVerify")
    ELSE IF st = Some("completed") THEN [f EXCEPT !.pc = "reset"]
    ELSE Finish(f, "NotYetVerified")

\* a status lookup that stamps the session it reads
cb_status_stamping(p) ==
    /\ req[p].pc = "status"
    /\ \E net \in {"ok", "down"} :
        /\ req' = [req EXCEPT ![p] =
                     after_status([@ EXCEPT !.adres = net],
                                  IF net = "ok" THEN ad_status(@.token) ELSE None)]
        /\ ad_col' = IF net = "ok" /\ req[p].token \in 1..Len(ad_col)
                     THEN [ad_col EXCEPT ![req[p].token] = click_session(@, clock)]
                     ELSE ad_col
    /\ UNCHANGED <<users, videos, clock, deploy, hist>>
\* server.py:410-437, bot.py:216-235: GET /ad/status/{token} over HTTP
cb_status(p) ==
    /\ req[p].pc = "status"
    /\ \E net \in {"ok", "down"} :
        req' = [req EXCEPT ![p] =
                  after_status([@ EXCEPT !.adres = net],
                               IF net = "ok" THEN ad_status(@.token) ELSE None)]
    /\ UNCHANGED <<users, videos, ad_col, clock, deploy, hist>>

\* an update that starts a cycle and keeps the counter
reset_cycle_keeping(doc) == [doc EXCEPT !.cycle = @ + 1]
\* server.py:419, bot.py:227: {"$set": {"free_used_in_cycle": 0}, "$inc": {"cycle": 1}}
reset_cycle(doc) == [doc EXCEPT !.free_used_in_cycle = 0, !.cycle = @ + 1]

\* server.py:419-424, bot.py:227-229: update_one({"user_id": user_id}, ...) on
\* the user who pressed the button
cb_reset(p) ==
    /\ req[p].pc = "reset"
    /\ LET u == req[p].user
           t == req[p].token
       IN /\ users[u].cycle < MaxCycle
          /\ users' = [users EXCEPT ![u] = reset_cycle(@)]
          /\ granted' = [granted EXCEPT ![u] = 0]
          /\ resetLog' = [resetLog EXCEPT ![t] = [n |-> @.n + 1, who |-> @.who \cup {u}]]
    /\ req' = [req EXCEPT ![p] = Finish(@, "Unlocked")]
    /\ UNCHANGED <<videos, ad_col, clock, deploy, premSent, premRepeat, sentLog, http>>

\* the handler returns
cb_return(p) ==
    /\ req[p].pc = "done"
    /\ req' = [req EXCEPT ![p] = Idle]
    /\ UNCHANGED <<users, videos, ad_col, clock, deploy, hist>>

\* ------------------------------------------------------ cursor deployment
\* app/telegram/handlers.py (webhook of app/routes.py) with the completion
\* endpoints that write the same ad_sessions schema: /ad/return of
\* app/web/routes.py, /ad/callback/{token} of web/ad_routes.py (ads/service.py)
\* and of app/web/ad_routes.py (app/ads/service.py).  handlers.py uses the
\* synchronous pymongo client and httpx inside its coroutines, so a handler
\* runs to its end without yielding: one action per callback command.

\* app/telegram/handlers.py:123-128
NewCursorDoc == [free_remaining |-> FREE_LIMIT, cursor |-> 0]

\* app/telegram/handlers.py:146-153
NewCursorSession(user_id) ==
    [user_id |-> user_id, completed |-> FALSE, completed_at |-> None]

\* app/telegram/handlers.py:120-130
ensure_user_doc(us, user_id) ==
    IF user_id \in DOMAIN us THEN us ELSE us @@ (user_id :> NewCursorDoc)

\* app/telegram/handlers.py:132-139: find().sort("_id", -1).skip(cursor).limit(1)
\* on a catalog of n documents: the position, in insertion order, of the
\* document found
get_next_video_for_user(cursor, n) ==
    IF cursor < n THEN Some(n - cursor) ELSE None

\* app/telegram/handlers.py:141-142: update_one(..., {"$inc": {"cursor": 1}})
increment_cursor(us, user_id) ==
    IF user_id \in DOMAIN us THEN [us EXCEPT ![user_id].cursor = @ + 1] ELSE us

\* app/telegram/handlers.py:311: {"$set": {"free_remaining": FREE_LIMIT, "cursor": 0}}
refill(us, user_id) ==
    IF user_id \in DOMAIN us
    THEN [us EXCEPT ![user_id] = [free_remaining |-> FREE_LIMIT, cursor |-> 0]]
    ELSE us

InitCursor ==
    /\ users = <<>>
    /\ videos = <<>>
    /\ ad_col = <<>>
    /\ clock = 0
    /\ deploy = "app"
    /\ req = [p \in Procs |-> Idle]
    /\ granted = [u \in USER_IDS |-> 0]
    /\ resetLog = <<>>
    /\ premSent = [u \in USER_IDS |-> {}]
    /\ premRepeat = [u \in USER_IDS |-> FALSE]
    /\ sentLog = [u \in USER_IDS |-> <<>>]
    /\ http = NoResponse

\* what the cursor deployment never writes
frame == <<deploy, req, granted, resetLog, premSent, premRepeat>>

\* app/telegram/bin_importer.py:79-95: the document built from a channel post
video_meta(message_id, file_id, caption, now) ==
    [file_id |-> file_id, message_id |-> message_id, caption |-> caption,
     imported_at |-> now]

\* app/telegram/bin_importer.py:41-106: one post of the channel history; a
\* post whose (chat_id, message_id) is in the catalog gets imported_at and
\* caption set again, any other post is inserted
import_recent ==
    \E message_id \in 1..MaxImports, file_id \in FileIds, caption \in Captions :
        LET existing == {i \in 1..Len(videos) : videos[i].message_id = message_id}
            first == CHOOSE i \in existing : \A j \in existing : i <= j
        IN /\ videos' = IF existing # {}
                        THEN [videos EXCEPT ![first] =
                                [@ EXCEPT !.imported_at = clock, !.caption = caption]]
                        ELSE Append(videos,
                                    video_meta(message_id, file_id, caption, clock))
           /\ UNCHANGED <<users, ad_col, clock, sentLog, http, frame>>

\* app/telegram/handlers.py:320-355 from the users collection us and the log
\* lg: the ad wall when free_remaining <= 0, the message when no document is
\* found, else the send (ok: Telegram accepted it) and the $inc, which is
\* issued whatever the send returned
send_video_flow(us, lg, user_id, ok) ==
    LET ensured == ensure_user_doc(us, user_id)
        u == ensured[user_id]
    IN IF u.free_remaining <= 0
       THEN /\ Len(ad_col) < MaxSessions
            /\ ad_col' = Append(ad_col, NewCursorSession(user_id))
            /\ users' = ensured
            /\ sentLog' = lg
       ELSE IF get_next_video_for_user(u.cursor, Len(videos)) = None
       THEN /\ users' = ensured
            /\ ad_col' = ad_col
            /\ sentLog' = lg
       ELSE /\ users' = [ensured EXCEPT ![user_id] =
                            [free_remaining |-> @.free_remaining - 1,
                             cursor |-> @.cursor + 1]]
            /\ ad_col' = ad_col
            /\ sentLog' = IF ok THEN [lg EXCEPT ![user_id] = Append(@, u.cursor)]
                          ELSE lg

\* app/telegram/handlers.py:287-289: the "videos" button
handle_videos ==
    \E user_id \in Viewers, ok \in BOOLEAN :
        /\ send_video_flow(users, sentLog, user_id, ok)
        /\ UNCHANGED <<videos, clock, http, frame>>

\* app/telegram/handlers.py:290-293: the "next" button
handle_next ==
    \E user_id \in Viewers, ok \in BOOLEAN :
        /\ user_id \in DOMAIN users => users[user_id].cursor < MaxCursor
        /\ send_video_flow(increment_cursor(users, user_id), sentLog, user_id, ok)
        /\ UNCHANGED <<videos, clock, http, frame>>

\* app/telegram/handlers.py:294-303: the "watch_ad" button
handle_watch_ad ==
    \E user_id \in Viewers :
        /\ Len(ad_col) < MaxSessions
        /\ ad_col' = Append(ad_col, NewCursorSession(user_id))
        /\ UNCHANGED <<users, videos, clock, sentLog, http, frame>>

\* app/telegram/handlers.py:304-316: the "I watched" button
handle_iwatched ==
    \E user_id \in Viewers, token \in 1..(MaxSessions + 1), ok \in BOOLEAN :
        IF /\ token \in 1..Len(ad_col)
           /\ ad_col[token].user_id = user_id
           /\ ad_col[token].completed
        THEN /\ send_video_flow(refill(users, user_id),
                                [sentLog EXCEPT ![user_id] = <<>>], user_id, ok)
             /\ UNCHANGED <<videos, clock, http, frame>>
        ELSE UNCHANGED vars

\* app/web/routes.py:50: update_one({"token": token}, {"$set": {"completed": True,
\* "completed_at": int(time.time())}}); ads/service.py:45-49 is the same update
mark_completed(sess, now) ==
    [sess EXCEPT !.completed = TRUE, !.completed_at = Some(now)]

\* app/ads/service.py:154-156: the update filtered on completed = False
mark_completed_once(sess, now) ==
    IF sess.completed THEN sess ELSE mark_completed(sess, now)

\* app/web/routes.py:24-74: GET /ad/return?token=&uid= (a session found by the
\* token alone is accepted when the uid does not match)
ad_return ==
    \E token \in 1..(MaxSessions + 1) :
        /\ IF token \in 1..Len(ad_col)
           THEN /\ ad_col' = [ad_col EXCEPT ![token] = mark_completed(@, clock)]
                /\ http' = [op |-> "ad_return", token |-> token, code |-> 200,
                            body |-> "Thanks for watching the ad"]
           ELSE /\ ad_col' = ad_col
                /\ http' = [op |-> "ad_return", token |-> token, code |-> 200,
                            body |-> "We couldn't match your session"]
        /\ UNCHANGED <<users, videos, clock, sentLog, frame>>

\* web/ad_routes.py:20-23 with ads/service.py:45-49: GET /ad/callback/{token}
cb ==
    \E token \in 1..(MaxSessions + 1) :
        /\ ad_col' = IF token \in 1..Len(ad_col)
                     THEN [ad_col EXCEPT ![token] = mark_completed(@, clock)]
                     ELSE ad_col
        /\ http' = [op |-> "cb", token |-> token, code |-> 200,
                    body |-> "Ad verified"]
        /\ UNCHANGED <<users, videos, clock, sentLog, frame>>

\* app/web/ad_routes.py:25-47 with app/ads/service.py:154-156:
\* GET /ad/callback/{token}
app_ad_callback ==
    \E token \in 1..(MaxSessions + 1) :
        /\ IF token \in 1..Len(ad_col)
           THEN /\ ad_col' = [ad_col EXCEPT ![token] = mark_completed_once(@, clock)]
                /\ http' = [op |-> "ad_callback", token |-> token, code |-> 200,
                            body |-> "Ad verified"]
           ELSE /\ ad_col' = ad_col
                /\ http' = [op |-> "ad_callback", token |-> token, code |-> 404,
                            body |-> "Invalid or expired session"]
        /\ UNCHANGED <<users, videos, clock, sentLog, frame>>

\* ------------------------------------------------ channel post ingestion
\* server.py:466-474: the document of an imported channel post
channel_post_rec(post) ==
    [file_id |-> post.file_id, channel_id |-> post.channel_id,
     message_id |-> post.message_id]

\* the posts of the catalog and of the updates in flight: a message of the
\* channel carries the same media each time it is delivered
known_posts ==
    {[file_id |-> videos[i].file_id, channel_id |-> videos[i].channel_id,
      message_id |-> videos[i].message_id] :
        i \in {j \in 1..Len(videos) : "channel_id" \in DOMAIN videos[j]}}
        \cup {req[p].post[1] : p \in {q \in Procs : req[q].post # None}}

\* server.py:461: find_one({"$or": [{"file_id": file_id},
\*                  {"channel_id": chat_id, "message_id": message_id}]})
find_existing(col, post) ==
    \E i \in 1..Len(col) :
        \/ col[i].file_id = post.file_id
        \/ /\ "channel_id" \in DOMAIN col[i]
           /\ col[i].channel_id = post.channel_id
           /\ col[i].message_id = post.message_id

\* server.py:60: create_index([("channel_id", 1), ("message_id", 1)],
\* unique=True, sparse=True): does insert_one(rec) raise DuplicateKeyError?
duplicate_key(col, rec) ==
    \E i \in 1..Len(col) :
        /\ "channel_id" \in DOMAIN col[i]
        /\ col[i].channel_id = rec.channel_id
        /\ col[i].message_id = rec.message_id

\* server.py:461-464: the branch on the result of the search
post_find(f) ==
    IF find_existing(videos, f.post[1]) THEN Finish(f, "skipped")
    ELSE [f EXCEPT !.pc = "post_insert"]

\* server.py:258-259 and 442-464: a channel_post update arrives (Telegram
\* delivers an update again when it got no answer) and the catalog is searched
channel_post_find(p) ==
    \E message_id \in MessageIds, file_id \in PostFiles :
        LET post == [file_id |-> file_id, channel_id |-> BIN_CHANNEL,
                     message_id |-> message_id]
            f == [Idle EXCEPT !.app = deploy, !.data = "channel_post",
                              !.post = Some(post)]
        IN /\ req[p].pc = "idle"
           /\ \A k \in known_posts : k.message_id = message_id => k = post
           /\ req' = [req EXCEPT ![p] = post_find(f)]
           /\ UNCHANGED <<users, videos, ad_col, clock, deploy, hist>>

\* server.py:466-475 and 489-490: insert_one(rec); the exception of the
\* unique index is caught and logged
channel_post_insert(p) ==
    LET rec == channel_post_rec(req[p].post[1])
    IN /\ req[p].pc = "post_insert"
       /\ IF duplicate_key(videos, rec)
          THEN /\ videos' = videos
               /\ req' = [req EXCEPT ![p] = Finish(@, "logged")]
          ELSE /\ videos' = Append(videos, rec)
               /\ req' = [req EXCEPT ![p] = Finish(@, "imported")]
       /\ UNCHANGED <<users, ad_col, clock, deploy, hist>>

\* ------------------------------------------------------ admin operations
\* a test that lets every user id pass
is_admin_any(user_id) == TRUE
\* server.py:82-83 and 218-219, bot.py:42-43, app/admin/routes.py:8-9
is_admin(user_id) == user_id \in ADMIN_IDS

\* the operations the programs reserve for ADMIN_IDS
AdminOps == {"import", "list_videos", "grant_premium", "broadcast", "forwarded",
             "admin_list_videos", "admin_insert_video", "forward"}

\* the frame of an admin operation requested by caller
admin_frame(op, caller) == [Idle EXCEPT !.app = deploy, !.data = op, !.user = caller]

\* bot.py:105-111 and 287-293, server.py:233-234 and 302: insert_one of a
\* catalog document
insert_video(p, f, file_id) ==
    /\ Len(videos) < MaxVideos
    /\ videos' = Append(videos, [file_id |-> file_id])
    /\ req' = [req EXCEPT ![p] = Finish(f, "imported")]

\* the request is answered without a write
refuse(p, f, outcome) ==
    /\ videos' = videos
    /\ users' = users
    /\ req' = [req EXCEPT ![p] = Finish(f, outcome)]

\* bot.py:96-112: /import with a message that carries a video
import_video_handler(p) ==
    \E caller \in USER_IDS, file_id \in FileIds :
        LET f == admin_frame("import", caller)
        IN /\ deploy = "bot" /\ may_begin(p)
           /\ IF ~ is_admin(caller) THEN refuse(p, f, "none")
              ELSE insert_video(p, f, file_id) /\ users' = users
           /\ UNCHANGED <<ad_col, clock, deploy, hist>>

\* bot.py:278-294: a forwarded message, or a video, sent to the bot
forwarded_handler(p) ==
    \E caller \in USER_IDS, file_id \in FileIds :
        LET f == admin_frame("forwarded", caller)
        IN /\ deploy = "bot" /\ may_begin(p)
           /\ IF ~ is_admin(caller) THEN refuse(p, f, "none")
              ELSE insert_video(p, f, file_id) /\ users' = users
           /\ UNCHANGED <<ad_col, clock, deploy, hist>>

\* bot.py:114-127: /list_videos
list_videos_handler(p) ==
    \E caller \in USER_IDS :
        LET f == admin_frame("list_videos", caller)
        IN /\ deploy = "bot" /\ may_begin(p)
           /\ refuse(p, f, IF is_admin(caller) THEN "listed" ELSE "Unauthorized")
           /\ UNCHANGED <<ad_col, clock, deploy, hist>>

\* bot.py:129-142: /grant_premium <user_id> <days>
grant_premium_handler(p) ==
    \E caller \in USER_IDS, target \in USER_IDS, days \in Days :
        LET f == admin_frame("grant_premium", caller)
        IN /\ deploy = "bot" /\ may_begin(p)
           /\ clock + days <= MaxTime + 1
           /\ IF ~ is_admin(caller) THEN refuse(p, f, "Unauthorized")
              ELSE /\ users' = IF target \in DOMAIN users
                               THEN [users EXCEPT ![target] =
                                        UpsertPremium(@, clock + days)]
                               ELSE users @@ (target :>
                                        UpsertPremium(BareDoc, clock + days))
                   /\ videos' = videos
                   /\ req' = [req EXCEPT ![p] = Finish(f, "Granted")]
           /\ UNCHANGED <<ad_col, clock, deploy, hist>>

\* bot.py:144-175: /broadcast <video_id> <chat_id>...; the sends write nothing
broadcast_handler(p) ==
    \E caller \in USER_IDS :
        LET f == admin_frame("broadcast", caller)
        IN /\ deploy = "bot" /\ may_begin(p)
           /\ refuse(p, f, IF is_admin(caller) THEN "Broadcast" ELSE "Unauthorized")
           /\ UNCHANGED <<ad_col, clock, deploy, hist>>

\* server.py:221-227: GET /admin/list_videos?admin_id=
admin_list_videos(p) ==
    \E admin_id \in USER_IDS :
        LET f == admin_frame("admin_list_videos", admin_id)
        IN /\ deploy = "server" /\ may_begin(p)
           /\ refuse(p, f, IF is_admin(admin_id) THEN "listed" ELSE "forbidden")
           /\ UNCHANGED <<ad_col, clock, deploy, hist>>

\* server.py:229-235: POST /admin/insert_video?admin_id=&file_id=
admin_insert_video_endpoint(p) ==
    \E admin_id \in USER_IDS, file_id \in FileIds :
        LET f == admin_frame("admin_insert_video", admin_id)
        IN /\ deploy = "server" /\ may_begin(p)
           /\ IF ~ is_admin(admin_id) THEN refuse(p, f, "forbidden")
              ELSE insert_video(p, f, file_id) /\ users' = users
           /\ UNCHANGED <<ad_col, clock, deploy, hist>>

\* server.py:282-298, with ensure_user_doc (85-99): a forwarded message with
\* media arrives and the document of its sender is read
handle_message_begin(p) ==
    \E user \in USER_IDS :
        LET f == admin_frame("forward", user)
        IN /\ deploy = "server" /\ may_begin(p)
           /\ req' = [req EXCEPT ![p] = ensure_read(f)]
           /\ UNCHANGED <<users, videos, ad_col, clock, deploy, hist>>

\* server.py:299-307: the admin forwarding import
handle_message_import(p) ==
    \E file_id \in FileIds :
        /\ req[p].pc = "import"
        /\ IF ~ is_admin(req[p].user) THEN refuse(p, req[p], "none")
           ELSE insert_video(p, req[p], file_id) /\ users' = users
        /\ UNCHANGED <<ad_col, clock, deploy, hist>>

\* app/admin/routes.py:25: the document inserted for a user who has none
NewAdminUserDoc == [premium_until |-> None, sent_file_ids |-> {}]

\* app/admin/routes.py:11-16: GET /admin/list_videos?admin_id=
list_videos(p) ==
    \E admin_id \in USER_IDS :
        LET f == admin_frame("list_videos", admin_id)
        IN /\ deploy = "app" /\ may_begin(p)
           /\ refuse(p, f, IF is_admin(admin_id) THEN "listed" ELSE "forbidden")
           /\ UNCHANGED <<ad_col, clock, deploy, hist>>

\* app/admin/routes.py:18-28: POST /admin/grant_premium?admin_id=&user_id=&days=
admin_grant_premium(p) ==
    \E admin_id \in USER_IDS, user_id \in USER_IDS, days \in Days :
        LET f == admin_frame("grant_premium", admin_id)
            found == IF user_id \in DOMAIN users THEN users
                     ELSE users @@ (user_id :> NewAdminUserDoc)
        IN /\ deploy = "app" /\ may_begin(p)
           /\ clock + days <= MaxTime + 1
           /\ IF ~ is_admin(admin_id) THEN refuse(p, f, "forbidden")
              ELSE /\ users' = [found EXCEPT ![user_id] =
                                   UpsertPremium(@, clock + days)]
                   /\ videos' = videos
                   /\ req' = [req EXCEPT ![p] = Finish(f, "Granted")]
           /\ UNCHANGED <<ad_col, clock, deploy, hist>>

\* --------------------------------------------------------------- webhook
\* server.py:36: WEBHOOK_SECRET, here configured
WEBHOOK_SECRET == Some("secret")

\* the X-Telegram-Secret header of a POST: absent, the secret, another value
Headers == {None, Some("secret"), Some("wrong")}

\* a test that lets every header pass
secret_ok_any(header) == TRUE
\* server.py:243-244: if WEBHOOK_SECRET: if x_telegram_secret != WEBHOOK_SECRET
secret_ok(header) == WEBHOOK_SECRET = None \/ header = WEBHOOK_SECRET

\* server.py:240-262: POST /webhook with a "free_video" callback query, a
\* forwarded video or a channel post; the secret is tested, then the update is
\* routed to its handler, which reads the collection it works on
telegram_webhook(p) ==
    \E header \in Headers, kind \in {"callback_query", "message", "channel_post"},
       user \in Viewers, message_id \in MessageIds, file_id \in PostFiles :
        LET post == [file_id |-> file_id, channel_id |-> BIN_CHANNEL,
                     message_id |-> message_id]
            f == [Idle EXCEPT !.app = deploy, !.secret = header]
            update ==
                IF kind = "callback_query"
                THEN [f EXCEPT !.user = user, !.data = "free_video"]
                ELSE IF kind = "message"
                THEN [f EXCEPT !.user = user, !.data = "forward"]
                ELSE [f EXCEPT !.data = "channel_post", !.post = Some(post)]
        IN /\ deploy = "server" /\ may_begin(p)
           /\ kind = "channel_post"
                => \A k \in known_posts : k.message_id = message_id => k = post
           /\ req' = [req EXCEPT ![p] =
                        IF ~ secret_ok(header)
                        THEN Finish(update, "invalid webhook secret")
                        ELSE IF kind = "channel_post" THEN post_find(update)
                        ELSE ensure_read(update)]
           /\ UNCHANGED <<users, videos, ad_col, clock, deploy, hist>>

\* ---------------------------------------------------- seen-set services
\* app/telegram/video_service.py:18, telegram/video_service.py:11: the document
\* inserted for a new user (sent_file_ids, or sent, empty)
NewSeenDoc == [sent_file_ids |-> <<>>, free_used |-> 0]

\* the elements of a list
Elems(list) == {list[i] : i \in 1..Len(list)}

\* app/telegram/video_service.py:22-34 (the first document, by created_at,
\* whose file_id is not in sent), telegram/video_service.py:17
\* (find_one({"file_id": {"$nin": sent}})): its position, None when all are seen
get_unseen_video_for_user(sent, col) ==
    LET unseen == {i \in 1..Len(col) : col[i].file_id \notin Elems(sent)}
    IN IF unseen = {} THEN None
       ELSE Some(CHOOSE i \in unseen : \A j \in unseen : i <= j)

\* app/telegram/video_service.py:36-37: {"$addToSet": {"sent_file_ids": file_id}};
\* telegram/video_service.py:27: {"$push": {"sent": fid}}
record_sent(app, sent, file_id) ==
    IF app = "app.telegram" /\ file_id \in Elems(sent) THEN sent
    ELSE Append(sent, file_id)

\* a service that records the item whatever became of the send
after_send_video_recording(f, ok) == [f EXCEPT !.pc = "record"]
\* app/telegram/video_service.py:47-57, telegram/video_service.py:25-32: the
\* update follows bot.send_video inside the try; the except branch tells the
\* user and records nothing
after_send_video(f, ok) ==
    IF ok THEN [f EXCEPT !.pc = "record"] ELSE Finish(f, "DeliveryFailed")

\* app/telegram/video_service.py:11-20 and 39-43, telegram/video_service.py:8-21:
\* the user document is ensured and the first unseen video looked up in the
\* list of that document; idx is its position in the catalog
send_one_video(p) ==
    \E user \in USER_IDS :
        LET ensured == IF user \in DOMAIN users THEN users
                       ELSE users @@ (user :> NewSeenDoc)
            vid == get_unseen_video_for_user(ensured[user].sent_file_ids, videos)
            f == [Idle EXCEPT !.app = deploy, !.user = user, !.data = "video"]
        IN /\ may_begin(p)
           /\ users' = ensured
           /\ req' = [req EXCEPT ![p] =
                        IF vid = None THEN Finish(f, "CatalogExhausted")
                        ELSE [f EXCEPT !.pc = "deliver", !.idx = vid[1]]]
           /\ UNCHANGED <<videos, ad_col, clock, deploy, hist>>

\* app/telegram/video_service.py:46-47, telegram/video_service.py:25-26:
\* bot.send_video (ok: Telegram accepted it)
send_video(p) ==
    \E ok \in BOOLEAN :
        /\ req[p].pc = "deliver"
        /\ req' = [req EXCEPT ![p] = after_send_video(@, ok)]
        /\ sentLog' = IF ok THEN [sentLog EXCEPT ![req[p].user] =
                                    Append(@, videos[req[p].idx].file_id)]
                      ELSE sentLog
        /\ UNCHANGED <<users, videos, ad_col, clock, deploy, granted, resetLog,
                       premSent, premRepeat, http>>

\* app/telegram/video_service.py:48-49, telegram/video_service.py:27: the
\* update of the seen-set after the send
send_video_record(p) ==
    /\ req[p].pc = "record"
    /\ users' = [users EXCEPT ![req[p].user].sent_file_ids =
                    record_sent(req[p].app, @, videos[req[p].idx].file_id)]
    /\ req' = [req EXCEPT ![p] = Finish(@, "Delivered")]
    /\ UNCHANGED <<videos, ad_col, clock, deploy, hist>>

\* ------------------------------------------------- ad session services
\* app/ads/service.py:122-134, ads/service.py:15-25: the document inserted
\* under a fresh uuid4 token (the next position of ad_sessions)
NewApiSession(token, user_id) ==
    [token |-> token, user_id |-> user_id, completed |-> FALSE,
     completed_at |-> None, short_url |-> None]

\* an update that writes the document anew
set_short_url_replacing(col, token, url) ==
    [i \in 1..Len(col) |->
        IF col[i].token = token
        THEN [NewApiSession(token, col[i].user_id) EXCEPT !.short_url = Some(url)]
        ELSE col[i]]
\* app/ads/service.py:139 and 143, ads/service.py:34:
\* update_one({"token": token}, {"$set": {"short_url": url}})
set_short_url(col, token, url) ==
    [i \in 1..Len(col) |->
        IF col[i].token = token THEN [col[i] EXCEPT !.short_url = Some(url)]
        ELSE col[i]]

\* app/ads/service.py:116-134 (POST /ad/create-session of
\* app/web/ad_routes.py), ads/service.py:14-26 (web/ad_routes.py:8-12): the
\* insert; the request goes on to the shortlink provider
create_ad_session(p) ==
    \E user_id \in USER_IDS, service \in Services :
        /\ req[p].pc = "idle"
        /\ Len(ad_col) < MaxSessions
        /\ ad_col' = Append(ad_col, NewApiSession(Len(ad_col) + 1, user_id))
        /\ req' = [req EXCEPT ![p] = [Idle EXCEPT !.pc = "shortlink",
                                                  !.app = service,
                                                  !.user = user_id,
                                                  !.token = Len(ad_col) + 1]]
        /\ UNCHANGED <<users, videos, clock, deploy, hist>>

\* app/ads/service.py:136-146: the short link, or the callback URL when the
\* provider gave none, is stored; ads/service.py:28-40: the short link is
\* stored when the provider gave one. The endpoint answers with the link.
attach_short_url(p) ==
    \E short \in {None, Some("short")} :
        LET f == req[p]
            url == IF short # None THEN short[1] ELSE "callback"
        IN /\ f.pc = "shortlink"
           /\ ad_col' = IF f.app = "ads" /\ short = None THEN ad_col
                         ELSE set_short_url(ad_col, f.token, url)
           /\ req' = [req EXCEPT ![p] = Idle]
           /\ http' = [op |-> "create", token |-> f.token, code |-> 200,
                       body |-> url]
           /\ UNCHANGED <<users, videos, clock, deploy, granted, resetLog,
                          premSent, premRepeat, sentLog>>

\* ---------------------------------------------------------- specifications
\* Delivery: one user's callback queries, up to NumProcs at once, against a
\* growing catalog, with premium grants to users who have a document, the
\* clock and ad completions. (Grants to users who have none: SpecLegacy.)
Next ==
    \/ Tick
    \/ admin_insert_video
    \/ grant_premium(Viewers \cap DOMAIN users)
    \/ ad_callback
    \/ \E p \in Procs : cb_begin(p, Viewers, {"free_video", "ad_check"})
    \/ \E p \in Procs : ensure_insert(p)
    \/ \E p \in Procs : send_video_to_user_by_index(p)
    \/ \E p \in Procs : cb_inc(p)
    \/ \E p \in Procs : cb_reread(p)
    \/ \E p \in Procs : cb_adcreate(p)
    \/ \E p \in Procs : cb_status(p)
    \/ \E p \in Procs : cb_reset(p)
    \/ \E p \in Procs : cb_return(p)

Spec == Init /\ [][Next]_vars

\* Documents without counters: /grant_premium of bot.py upserts the document
\* of a user who has not pressed a button yet, and the webhook of server.py,
\* on the same database, serves that user's "free_video" presses.
InitLegacy == Init /\ deploy = "server"

NextLegacy ==
    \/ Tick
    \/ admin_insert_video
    \/ grant_premium(Viewers)
    \/ \E p \in Procs : cb_begin(p, Viewers, {"free_video"})
    \/ \E p \in Procs : ensure_insert(p)
    \/ \E p \in Procs : ensure_set_fields(p)
    \/ \E p \in Procs : ensure_refind(p)
    \/ \E p \in Procs : send_video_to_user_by_index(p)
    \/ \E p \in Procs : cb_inc(p)
    \/ \E p \in Procs : cb_reread(p)
    \/ \E p \in Procs : cb_adcreate(p)
    \/ \E p \in Procs : cb_return(p)

SpecLegacy == InitLegacy /\ [][NextLegacy]_vars

\* Ad sessions: every endpoint of /ad/* and the buttons of every user, one
\* callback query at a time, from a state where the users have used up their
\* free batch.
NextAds ==
    \/ Tick
    \/ ad_create
    \/ ad_redirect
    \/ ad_callback
    \/ \E p \in Pressers : cb_begin(p, USER_IDS, {"free_video", "ad_check"})
    \/ \E p \in Pressers : send_video_to_user_by_index(p)
    \/ \E p \in Pressers : cb_inc(p)
    \/ \E p \in Pressers : cb_reread(p)
    \/ \E p \in Pressers : cb_adcreate(p)
    \/ \E p \in Pressers : cb_status(p)
    \/ \E p \in Pressers : cb_reset(p)
    \/ \E p \in Pressers : cb_return(p)

SpecAds == InitAds /\ [][NextAds]_vars

\* Cursor deployment: one user's buttons, the importer, the clock and the
\* completion endpoints.
NextCursor ==
    \/ Tick
    \/ import_recent
    \/ handle_videos
    \/ handle_next
    \/ handle_watch_ad
    \/ handle_iwatched
    \/ ad_return
    \/ cb
    \/ app_ad_callback

SpecCursor == InitCursor /\ [][NextCursor]_vars

\* Channel posts: channel_post updates reach the webhook of server.py, up to
\* NumProcs at once.
InitIngest == Init /\ deploy = "server"

NextIngest ==
    \/ \E p \in Procs : channel_post_find(p)
    \/ \E p \in Procs : channel_post_insert(p)
    \/ \E p \in Procs : cb_return(p)

SpecIngest == InitIngest /\ [][NextIngest]_vars

\* Admin operations: every program's admin commands and endpoints, requested
\* by admins and by other users.
InitAdmin == Init \/ InitCursor

NextAdmin ==
    \/ Tick
    \/ \E p \in Procs : import_video_handler(p)
    \/ \E p \in Procs : forwarded_handler(p)
    \/ \E p \in Procs : list_videos_handler(p)
    \/ \E p \in Procs : grant_premium_handler(p)
    \/ \E p \in Procs : broadcast_handler(p)
    \/ \E p \in Procs : admin_list_videos(p)
    \/ \E p \in Procs : admin_insert_video_endpoint(p)
    \/ \E p \in Procs : handle_message_begin(p)
    \/ \E p \in Procs : ensure_insert(p)
    \/ \E p \in Procs : handle_message_import(p)
    \/ \E p \in Procs : list_videos(p)
    \/ \E p \in Procs : admin_grant_premium(p)
    \/ \E p \in Procs : cb_return(p)

SpecAdmin == InitAdmin /\ [][NextAdmin]_vars

\* Webhook: POSTs to /webhook of server.py with and without the configured
\* secret, up to NumProcs at once, and the handlers they are routed to.
NextWebhook ==
    \/ \E p \in Procs : telegram_webhook(p)
    \/ \E p \in Procs : ensure_insert(p)
    \/ \E p \in Procs : handle_message_import(p)
    \/ \E p \in Procs : channel_post_insert(p)
    \/ \E p \in Procs : send_video_to_user_by_index(p)
    \/ \E p \in Procs : cb_inc(p)
    \/ \E p \in Procs : cb_reread(p)
    \/ \E p \in Procs : cb_adcreate(p)
    \/ \E p \in Procs : cb_return(p)

SpecWebhook == InitIngest /\ [][NextWebhook]_vars

\* Seen-set services: requests for a video, up to NumProcs at once, against
\* a catalog of two videos.
InitSeen ==
    /\ users = <<>>
    /\ videos = <<[file_id |-> "f1"], [file_id |-> "f2"]>>
    /\ ad_col = <<>>
    /\ clock = 0
    /\ deploy \in SeenApps
    /\ req = [p \in Procs |-> Idle]
    /\ granted = [u \in USER_IDS |-> 0]
    /\ resetLog = <<>>
    /\ premSent = [u \in USER_IDS |-> {}]
    /\ premRepeat = [u \in USER_IDS |-> FALSE]
    /\ sentLog = [u \in USER_IDS |-> <<>>]
    /\ http = NoResponse

NextSeen ==
    \/ \E p \in Procs : send_one_video(p)
    \/ \E p \in Procs : send_video(p)
    \/ \E p \in Procs : send_video_record(p)
    \/ \E p \in Procs : cb_return(p)

SpecSeen == InitSeen /\ [][NextSeen]_vars

\* Ad session services: sessions are created and completed over the web
\* endpoints, the shortlink provider answering at any time.
NextSessions ==
    \/ Tick
    \/ \E p \in Procs : create_ad_session(p)
    \/ \E p \in Procs : attach_short_url(p)
    \/ cb
    \/ app_ad_callback

SpecSessions == InitCursor /\ [][NextSessions]_vars

\* ------------------------------------------------------------------ claims
Done(p) == req[p].pc = "done"
FreeRequest(p) == Done(p) /\ req[p].data = "free_video" /\ ~ req[p].premium

\* C1: in every reachable state, every user's free_used_in_cycle is within
\* 0..FREE_BATCH.
C1_QuotaBounded ==
    \A u \in DOMAIN users : users[u].free_used_in_cycle \in 0..FREE_BATCH

\* C2: between two quota resets, at most FREE_BATCH videos are sent to a user
\* who is not premium, whatever the interleaving of the requests.
C2_GrantsWithinLimit ==
    \A u \in USER_IDS : granted[u] <= FREE_BATCH

\* C3: through one ad session the quota is reset at most once, however many
\* times its confirmation is pressed.
C3_ResetOncePerSession ==
    \A t \in 1..Len(resetLog) : resetLog[t].n <= 1

\* C4: a confirmation with token t resets the quota of no user but the owner
\* of session t.
C4_ResetOnlyOwner ==
    \A t \in 1..Len(resetLog) : resetLog[t].who \subseteq {ad_col[t].user_id}

\* C5: a completed ad session stays completed across every step (create,
\* click, callback of any status, status poll, confirmation).
C5_CompletedIsFinal ==
    [][\A t \in 1..Len(ad_col) :
          ad_col[t].status = "completed" => ad_col'[t].status = "completed"]_vars

\* C5 witness: a completed session that was clicked after its completion.
C5_Witness ==
    \E t \in 1..Len(ad_col) :
        /\ ad_col[t].status = "completed"
        /\ ad_col[t].clicked_at # None
        /\ ad_col[t].clicked_at[1] > ad_col[t].completed_at[1]

\* C6: a delivery request of a non-premium user who has used FREE_BATCH free
\* videos answers AdRequired with a newly created pending session (when the
\* ad service answers), and the counter stays at FREE_BATCH.
C6_ScenarioA ==
    \A p \in Procs :
        (FreeRequest(p) /\ req[p].used = FREE_BATCH /\ req[p].adres \notin {"lost", "down"})
            => /\ req[p].outcome = "AdRequired"
               /\ req[p].made \in 1..Len(ad_col)

\* C7: a user blocked for exhausted quota is handed a verification link of a
\* persisted session also when the call that creates the session fails.
C7_LinkDespiteFailure ==
    \A p \in Procs :
        (Done(p) /\ req[p].blocked /\ req[p].adres \in {"lost", "down"})
            => req[p].link /\ req[p].made \in 1..Len(ad_col)

\* C8: no catalog item is sent twice to a user while premium (the index never
\* wraps, so the whole history is one pass).
C8_NoPremiumRepeat ==
    \A u \in USER_IDS : ~ premRepeat[u]

C10_ExhaustedNotGated ==
    \A p \in Procs :
        (FreeRequest(p) /\ quota_left(req[p].used) /\ req[p].cat # None)
            => /\ req[p].outcome = "CatalogExhausted"
               /\ ~ req[p].blocked
               /\ req[p].made = 0 /\ req[p].adres = "none"

\* C10 witness: such a request on a non-empty catalog that the user has drained.
C10_Witness ==
    \E p \in Procs :
        /\ FreeRequest(p) /\ quota_left(req[p].used)
        /\ req[p].cat # None /\ req[p].cat # Some(0)
        /\ req[p].outcome = "CatalogExhausted"

\* a step in which process p leaves the pc values in from
Leaves(p, from) == req[p].pc \in from /\ req'[p].pc # req[p].pc

\* C11: after user U's session is completed and confirmed (the quota reset is
\* made and no video was sent since), the next delivery request of U passes
\* the quota test although free_used_in_cycle was at FREE_BATCH before, and,
\* the catalog having an item at U's index, the item is sent.
C11_GrantedAfterUnlock ==
    [][\A p \in Procs :
        /\ (/\ Leaves(p, {"idle"}) /\ req'[p].data = "free_video"
            /\ users[req'[p].user].cycle >= 1 /\ granted[req'[p].user] = 0)
           => req'[p].pc = "send" /\ ~ req'[p].blocked
        /\ (/\ Leaves(p, {"send"}) /\ ~ req[p].premium
            /\ users[req[p].user].cycle >= 1 /\ granted[req[p].user] = 0
            /\ req[p].idx < Len(videos))
           => \/ req'[p].pc = "inc" /\ granted'[req[p].user] = 1
              \/ req'[p].outcome = "DeliveryFailed"]_vars

\* C11 witness: a user whose own completed session was confirmed has been
\* delivered the first video of the new cycle.
C11_Witness ==
    \E p \in Procs :
        /\ FreeRequest(p) /\ req[p].outcome = "Delivered"
        /\ users[req[p].user].cycle >= 1 /\ granted[req[p].user] = 1
        /\ \E t \in 1..Len(ad_col) :
              /\ ad_col[t].user_id = req[p].user /\ ad_col[t].status = "completed"
              /\ resetLog[t].n >= 1

C14_PremiumIffStrictlyAfter ==
    /\ [](\A u \in DOMAIN users :
            is_premium(users[u], clock)
              <=> (users[u].premium_until # None /\ users[u].premium_until[1] > clock))
    /\ [](~ is_premium([NewUserDoc EXCEPT !.premium_until = Some(Unparseable)], clock))
    /\ [][\A p \in Procs :
            (Leaves(p, {"idle", "insert", "refind"})
                /\ req'[p].pc \in {"send", "adcreate", "done"}
                /\ req'[p].outcome # "error" /\ req'[p].data = "free_video")
            => LET d == users'[req'[p].user]
               IN /\ req'[p].premium
                       = (d.premium_until # None /\ d.premium_until[1] > clock)
                  /\ (~ req'[p].premium /\ d.free_used_in_cycle >= FREE_BATCH)
                       => req'[p].blocked]_vars

\* C14 witness: a user whose premium_until is set and not after now has been
\* blocked by the quota.
C14_Witness ==
    \E p \in Procs :
        /\ FreeRequest(p) /\ req[p].blocked
        /\ users[req[p].user].premium_until # None
        /\ users[req[p].user].premium_until[1] <= clock

C16_StatusReadOnly ==
    [][\A p \in Procs :
        Leaves(p, {"status"}) => ad_col' = ad_col /\ users' = users]_vars

\* C16 witness: a lookup has reported completed for a session that was clicked.
C16_Witness ==
    \E p \in Procs :
        /\ req[p].pc = "reset" /\ req[p].adres = "ok"
        /\ ad_col[req[p].token].status = "completed"
        /\ ad_col[req[p].token].clicked_at # None

\* C18: a confirmation whose lookup finds the session pending answers
\* NotYetVerified and changes neither the session nor any user document.
C18_PendingNotVerified ==
    [][\A p \in Procs :
        (Leaves(p, {"status"}) /\ req'[p].adres = "ok"
            /\ ad_status(req[p].token) = Some("pending"))
        => /\ req'[p].pc = "done" /\ req'[p].outcome = "NotYetVerified"
           /\ ad_col' = ad_col /\ users' = users]_vars

\* C18 witness: the owner of a pending session has pressed the confirmation
\* and the quota is still used up.
C18_Witness ==
    \E p \in Procs :
        /\ Done(p) /\ req[p].outcome = "NotYetVerified"
        /\ ad_col[req[p].token].status = "pending"
        /\ ad_col[req[p].token].user_id = req[p].user
        /\ users[req[p].user].free_used_in_cycle = FREE_BATCH

\* C19: sessions are never removed and keep their owner; the status of a
\* session changes only from pending to completed, and only in a step that
\* does nothing but record the completion (no click, lookup, delivery or
\* passing of time does it).
C19_OnlyPendingToCompleted ==
    [][/\ Len(ad_col') >= Len(ad_col)
       /\ \A t \in 1..Len(ad_col) :
            /\ ad_col'[t].user_id = ad_col[t].user_id
            /\ ad_col'[t].status # ad_col[t].status
               => /\ ad_col[t].status = "pending"
                  /\ ad_col'[t] = [ad_col[t] EXCEPT !.status = "completed",
                                                    !.completed_at = Some(clock)]
                  /\ UNCHANGED <<users, videos, clock, req>>]_vars

\* C19 witness: a pending session that was clicked earlier is still pending
\* after its owner's delivery request was turned down.
C19_Witness ==
    \E t \in 1..Len(ad_col), p \in Procs :
        /\ ad_col[t].status = "pending" /\ ad_col[t].clicked_at # None
        /\ clock > ad_col[t].clicked_at[1]
        /\ FreeRequest(p) /\ req[p].blocked /\ req[p].user = ad_col[t].user_id

\* C12 as claimed: a completion signal for a token that matches no session is
\* never answered as a successful verification.
C12_UnknownTokenNotVerified ==
    (http.op # "none" /\ http.token \notin 1..Len(ad_col))
        => http.body \notin {"Ad verified", "Thanks for watching the ad"}

\* C17 as claimed: once a session is completed, no later step changes its
\* record, the completion timestamp included.
C17_LaterCompletionsNoEffect ==
    [][\A t \in 1..Len(ad_col) :
          ad_col[t].completed => ad_col'[t] = ad_col[t]]_vars

\* C20 as claimed: the k-th video delivered to a free user since the last
\* refill is the one at ordinal cursor0 + k - 1, cursor0 being the ordinal
\* of the first.
C20_SequentialScan ==
    \A u \in USER_IDS : \A k \in 1..Len(sentLog[u]) :
        sentLog[u][k] = sentLog[u][1] + k - 1

\* C21 as claimed: the cursor of a user advances only in a step that
\* delivers a video to that user, to the ordinal after the one delivered.
C21_TrackersAfterSuccess ==
    [][\A u \in DOMAIN users :
          users'[u].cursor > users[u].cursor
            => /\ sentLog'[u] # sentLog[u]
               /\ Len(sentLog'[u]) > 0
               /\ sentLog'[u][Len(sentLog'[u])] = users'[u].cursor - 1]_vars

\* C22 as claimed: a step that refills the free videos of a user does not
\* move the user's cursor back.
C22_ResetKeepsCursor ==
    [][\A u \in DOMAIN users :
          users'[u].free_remaining > users[u].free_remaining
            => users'[u].cursor >= users[u].cursor]_vars

\* a send step of a non-premium request p that sent nothing although an item
\* was found
FailedSend(p) ==
    /\ Leaves(p, {"send"}) /\ ~ req[p].premium /\ req[p].idx < Len(videos)
    /\ granted' = granted

C25_SendFailureHandled ==
    /\ [][\A p \in Procs :
            Leaves(p, {"send"}) => /\ req'[p].pc \in {"inc", "done"}
                                   /\ req'[p].outcome # "error"
                                   /\ \A q \in Procs \ {p} : req'[q] = req[q]
            ]_vars
    /\ [](\A p \in Procs : req[p].outcome = "error" => req[p].cat = None /\ req[p].idx = 0)

\* C25 witness: beside a request whose send failed, another request of the
\* same user, for the same index, has delivered.
C25_Witness ==
    \E p, q \in Procs :
        /\ Done(p) /\ req[p].outcome = "DeliveryFailed"
        /\ Done(q) /\ req[q].outcome = "Delivered"
        /\ req[q].user = req[p].user /\ req[q].idx = req[p].idx

\* C27 as claimed: when two requests of an unknown user both find no document
\* and both insert, neither request's handling aborts.
C27_ConcurrentEnsure ==
    \A p \in Procs : req[p].outcome # "error"

\* C26 as claimed: a catalog document is never modified once it is ingested.
C26_ItemsImmutable ==
    [][\A i \in 1..Len(videos) : i <= Len(videos') /\ videos'[i] = videos[i]]_vars

\* a session document that counts as completed, in either schema
IsCompleted(sess) ==
    \/ "completed" \in DOMAIN sess /\ sess.completed
    \/ "status" \in DOMAIN sess /\ sess.status = "completed"

\* C29: no step changes the user id or the token of a session, or any field
\* other than short_url, clicked_at, completed/status and completed_at, and no
\* step (the short-URL update included) turns a completed session back.
C29_SessionIdentityFixed ==
    [][\A t \in 1..Len(ad_col) :
          /\ t <= Len(ad_col')
          /\ DOMAIN ad_col'[t] = DOMAIN ad_col[t]
          /\ \A k \in DOMAIN ad_col[t] \ {"short_url", "clicked_at", "completed",
                                          "status", "completed_at"} :
                ad_col'[t][k] = ad_col[t][k]
          /\ IsCompleted(ad_col[t]) => IsCompleted(ad_col'[t])]_vars

\* C29 witness: the last answer is that of a create-session request whose
\* short URL was stored after the session had been completed.
C29_Witness ==
    /\ http.op = "create"
    /\ http.token \in 1..Len(ad_col)
    /\ ad_col[http.token].completed
    /\ ad_col[http.token].short_url = Some(http.body)
    /\ ad_col[http.token].user_id = 2

\* C30 as claimed: no two catalog documents have the same file_id, and no two
\* have the same (channel_id, message_id).
C30_NoDuplicateItems ==
    \A i, j \in 1..Len(videos) :
        i # j => /\ videos[i].file_id # videos[j].file_id
                 /\ ~ (/\ videos[i].channel_id = videos[j].channel_id
                       /\ videos[i].message_id = videos[j].message_id)

\* C28 as claimed: video_index counts the successful sends to the user, so no
\* step lowers it and the only step that changes it is the $inc by one that
\* follows a successful send; free_used_in_cycle changes only by that $inc of a
\* non-premium send or to 0 by the reset of a verified ad.
C28_IndexCountsSends ==
    [][\A u \in DOMAIN users :
          /\ \/ users'[u].video_index = users[u].video_index
             \/ /\ users'[u].video_index = users[u].video_index + 1
                /\ \E p \in Procs : Leaves(p, {"inc"}) /\ req[p].user = u
          /\ \/ users'[u].free_used_in_cycle = users[u].free_used_in_cycle
             \/ /\ users'[u].free_used_in_cycle = users[u].free_used_in_cycle + 1
                /\ \E p \in Procs :
                      Leaves(p, {"inc"}) /\ req[p].user = u /\ ~ req[p].premium
             \/ /\ users'[u].free_used_in_cycle = 0
                /\ \E p \in Procs : Leaves(p, {"reset"}) /\ req[p].user = u]_vars

\* a step of process p that belongs to an admin operation of a caller who is
\* not in ADMIN_IDS
NonAdminStep(p) ==
    /\ req'[p] # req[p]
    /\ req'[p].pc # "idle"
    /\ req'[p].data \in AdminOps
    /\ ~ (req'[p].user \in ADMIN_IDS)

C32_BadSecretRejected ==
    /\ [](\A p \in Procs :
            (req[p].pc # "idle" /\ req[p].secret # WEBHOOK_SECRET)
                => req[p].pc = "done" /\ req[p].outcome = "invalid webhook secret")
    /\ [][\A p \in Procs :
            (req'[p] # req[p] /\ req'[p].pc # "idle"
                /\ req'[p].secret # WEBHOOK_SECRET)
                => users' = users /\ ad_col' = ad_col /\ videos' = videos]_vars

\* C32 witness: POSTs without the header and with a wrong one were refused
\* while users, catalog documents and ad sessions existed.
C32_Witness ==
    /\ req[1].pc = "done" /\ req[1].secret = None
    /\ req[1].outcome = "invalid webhook secret"
    /\ req[2].pc = "done" /\ req[2].secret = Some("wrong")
    /\ req[2].outcome = "invalid webhook secret"
    /\ DOMAIN users # {} /\ Len(videos) >= 1 /\ Len(ad_col) >= 1

\* C33: the seen-set of a user holds only file ids of videos whose send to
\* that user succeeded, and a failed send leaves every seen-set as it was, so
\* the video is found again by the next lookup.
C33_SeenOnlyDelivered ==
    /\ [](\A u \in DOMAIN users : Elems(users[u].sent_file_ids) \subseteq Elems(sentLog[u]))
    /\ [][\A p \in Procs :
            (Leaves(p, {"deliver"}) /\ sentLog' = sentLog)
                => /\ users' = users
                   /\ req'[p].outcome = "DeliveryFailed"
                   /\ (videos[req[p].idx].file_id
                          \notin Elems(users[req[p].user].sent_file_ids)
                       => get_unseen_video_for_user(
                              users'[req[p].user].sent_file_ids, videos) # None)]_vars

\* C33 witness: a send to a user has failed after another one to that user
\* succeeded; the seen-set holds the delivered video and not the failed one.
C33_Witness ==
    \E p \in Procs :
        /\ req[p].pc = "done" /\ req[p].outcome = "DeliveryFailed"
        /\ users[req[p].user].sent_file_ids = <<"f1">>
        /\ videos[req[p].idx].file_id = "f2"
====
